---------------------------- MODULE Spec2Model ----------------------------
(***************************************************************************)
(* M4 summary (src/summary/m4.py) and M4 dataset cache                     *)
(* (src/datasets/m4.py).                                                   *)
(*                                                                         *)
(* A floating point number is an exact fraction [n, d] in lowest terms     *)
(* with d >= 0; d = 0 stands for the non-finite values: 0/0 is NaN, 1/0 is *)
(* +inf and -1/0 is -inf.  An ordered dictionary is a sequence of          *)
(* [k, v] records in insertion order.                                      *)
(***************************************************************************)
EXTENDS Integers, Sequences, FiniteSets, TLC

\* ------------------------------------------------------------------ bounds
\* Largest number of series a category holds beyond its first in an
\* evaluated corpus.
MaxExtra == 1
\* Largest number of reference-table rows when summarize_groups is called
\* on its own.
MaxRows == 3
\* The larger of the two score values a score map handed to
\* summarize_groups on its own may hold.
MaxScore == 3
\* Number of reference-table identifiers seen by build_cache.
NIds == 3

\* ------------------------------------------------------- domain constants
\* M4Meta.seasonal_patterns, in declared order.
seasonal_patterns == <<"Yearly", "Quarterly", "Monthly", "Weekly", "Daily", "Hourly">>

Categories == {seasonal_patterns[i] : i \in 1..Len(seasonal_patterns)}

\* Mutant: the major categories in np.unique's order.
MajorGroups_Sorted == <<"Monthly", "Quarterly", "Yearly">>

\* Mutant: the minor loop leaves Hourly out.
MinorGroups_NoHourly == <<"Weekly", "Daily">>

\* The literal lists the two loops of summarize_groups run over.
MajorGroups == <<"Yearly", "Quarterly", "Monthly">>

MinorGroups == <<"Weekly", "Daily", "Hourly">>

\* ------------------------------------------------------------- arithmetic
Abs(x) == IF x < 0 THEN -x ELSE x

Sign(x) == IF x < 0 THEN -1 ELSE IF x > 0 THEN 1 ELSE 0

RECURSIVE GCD(_, _)
GCD(a, b) == IF b = 0 THEN a ELSE GCD(b, a % b)

\* The float n/d, in lowest terms (d >= 0).
Norm(n, d) ==
    IF d = 0 THEN [n |-> Sign(n), d |-> 0]
    ELSE LET g == GCD(Abs(n), d) IN [n |-> n \div g, d |-> d \div g]

F(i) == [n |-> i, d |-> 1]

NaN == [n |-> 0, d |-> 0]

isnan(x) == x.d = 0 /\ x.n = 0

IsFinite(x) == x.d > 0

FAdd(a, b) ==
    IF a.d = 0 /\ b.d = 0 THEN (IF a.n = b.n THEN a ELSE NaN)
    ELSE Norm(a.n * b.d + b.n * a.d, a.d * b.d)

FMul(a, b) == Norm(a.n * b.n, a.d * b.d)

FAbs(a) == [n |-> Abs(a.n), d |-> a.d]

FSub(a, b) == FAdd(a, [n |-> -b.n, d |-> b.d])

\* numpy's true division: x/0 is +-inf or NaN (with a RuntimeWarning), never
\* an exception.
FDiv(a, b) == Norm(a.n * b.d * (IF b.n < 0 THEN -1 ELSE 1), a.d * Abs(b.n))

RECURSIVE FSum(_)
FSum(s) == IF s = <<>> THEN F(0) ELSE FAdd(Head(s), FSum(Tail(s)))

\* np.mean of a flat array: NaN for an empty one.
FMean(s) == FDiv(FSum(s), F(Len(s)))

\* np.round(x, 3): the nearest multiple of 1/1000, ties to the even one;
\* non-finite values are returned as they are.
Round3(x) ==
    IF x.d = 0 THEN x
    ELSE LET m == Abs(x.n) * 1000
             q == m \div x.d
             r == m % x.d
             up == (2 * r > x.d) \/ (2 * r = x.d /\ q % 2 = 1)
             k == IF up THEN q + 1 ELSE q
         IN Norm(Sign(x.n) * k, 1000)

\* ------------------------------------------------------ ordered dictionary
Keys(dict) == [i \in 1..Len(dict) |-> dict[i].k]

HasKey(dict, key) == \E i \in 1..Len(dict) : dict[i].k = key

Get(dict, key) == dict[CHOOSE i \in 1..Len(dict) : dict[i].k = key].v

\* dict[key] = value: a new key goes last, an existing key keeps its place.
Put(dict, key, value) ==
    IF HasKey(dict, key)
    THEN [i \in 1..Len(dict) |->
            IF dict[i].k = key THEN [k |-> key, v |-> value] ELSE dict[i]]
    ELSE Append(dict, [k |-> key, v |-> value])

Values(dict) == [i \in 1..Len(dict) |-> dict[i].v]

\* ------------------------------------------------------------ sequences
RECURSIVE SeqsUpTo(_, _)
SeqsUpTo(S, n) ==
    IF n = 0 THEN {<<>>}
    ELSE LET shorter == SeqsUpTo(S, n - 1)
         IN shorter \cup {Append(s, x) : s \in {t \in shorter : Len(t) = n - 1}, x \in S}

\* The rows of `values` picked by a boolean mask (values[mask]).
RECURSIVE MaskSelect(_, _)
MaskSelect(values, mask) ==
    IF values = <<>> THEN <<>>
    ELSE IF Head(mask)
         THEN <<Head(values)>> \o MaskSelect(Tail(values), Tail(mask))
         ELSE MaskSelect(Tail(values), Tail(mask))

\* v[~np.isnan(v)]: the non-NaN entries of a row, in their order.
RECURSIVE StripNaN(_)
StripNaN(v) ==
    IF v = <<>> THEN <<>>
    ELSE IF isnan(Head(v)) THEN StripNaN(Tail(v))
         ELSE <<Head(v)>> \o StripNaN(Tail(v))


\* ------------------------------------------------------------------ state
VARIABLES
    training_set,   \* M4Summary.training_set: the M4Dataset of the training part
    test_set,       \* M4Summary.test_set: the M4Dataset of the test part
    naive2_csv,     \* the table at NAIVE2_FORECAST_FILE_PATH: rows of [id, values]
    forecast_arg,   \* per evaluate call: the caller's forecast array
    call,           \* per evaluate call: its position, locals and result
    sg_scores,      \* summarize_groups called on its own: its `scores` argument
    sg_pc,          \* ... "called", "returned" or "raised"
    sg_err,         \* ... the exception raised, or "none"
    sg_ret,         \* ... the OrderedDict returned
    m4_ids,         \* download: the M4id column of the reference table
    csv_files,      \* the extracted CSV files build_cache globs: name -> rows
    bc              \* build_cache: its position, locals and the dumped cache

vars == <<training_set, test_set, naive2_csv, forecast_arg, call,
          sg_scores, sg_pc, sg_err, sg_ret, m4_ids, csv_files, bc>>

session == <<training_set, test_set, naive2_csv>>

sg_vars == <<sg_scores, sg_pc, sg_err, sg_ret>>

cache_vars == <<m4_ids, csv_files, bc>>

\* No build_cache is running.
NoCache == m4_ids = <<>> /\ csv_files = <<>> /\ bc = <<>>

\* -------------------------------------------------------- summarize_groups
\* group_count: len(np.where(self.test_set.groups == group_name)[0]).
group_count(groups, group_name) ==
    Len(MaskSelect(groups, [i \in 1..Len(groups) |-> groups[i] = group_name]))

\* Mutant: scores.get(g, 0) in place of scores[g].
score_of_default(scores, g) ==
    [err |-> "none", v |-> IF HasKey(scores, g) THEN Get(scores, g) ELSE F(0)]

\* scores[g]: KeyError when the dict holds no g.
score_of(scores, g) ==
    IF HasKey(scores, g) THEN [err |-> "none", v |-> Get(scores, g)]
    ELSE [err |-> "KeyError", v |-> NaN]

\* The loop over the major groups, from its i-th round on.  st holds the
\* locals of summarize_groups.
RECURSIVE MajorLoop(_, _, _, _)
MajorLoop(groups, scores, i, st) ==
    IF i > Len(MajorGroups) THEN st
    ELSE LET g == MajorGroups[i]
             score == score_of(scores, g)
         IN IF score.err # "none" THEN [st EXCEPT !.err = score.err]
            ELSE MajorLoop(groups, scores, i + 1,
                   [st EXCEPT
                      !.weighted_score =
                          Put(@, g, FMul(score.v, F(group_count(groups, g)))),
                      !.scores_summary = Put(@, g, score.v)])

\* The loop over the minor groups, from its i-th round on.
RECURSIVE MinorLoop(_, _, _, _)
MinorLoop(groups, scores, i, st) ==
    IF i > Len(MinorGroups) THEN st
    ELSE LET g == MinorGroups[i]
             score == score_of(scores, g)
         IN IF score.err # "none" THEN [st EXCEPT !.err = score.err]
            ELSE MinorLoop(groups, scores, i + 1,
                   [st EXCEPT
                      !.others_score =
                          FAdd(@, FMul(score.v, F(group_count(groups, g)))),
                      !.others_count = @ + group_count(groups, g)])

\* Mutant: the sum divided by the number of reported buckets.
Average_OverBuckets(weighted_score, groups) ==
    FDiv(FSum(Values(weighted_score)), F(Len(weighted_score)))

\* np.sum(list(weighted_score.values())) / len(self.test_set.groups)
Average(weighted_score, groups) ==
    FDiv(FSum(Values(weighted_score)), F(Len(groups)))

\* summarize_groups(scores) of an M4Summary whose test_set.groups is `groups`:
\* [err, scores_summary].  np_scalars: the scores are numpy scalars, whose
\* division by zero gives NaN or inf; Python floats raise ZeroDivisionError.
summarize_groups(groups, scores, np_scalars) ==
    LET st0 == [err |-> "none", scores_summary |-> <<>>, weighted_score |-> <<>>,
                others_score |-> F(0), others_count |-> 0]
        st1 == MajorLoop(groups, scores, 1, st0)
        st2 == IF st1.err # "none" THEN st1 ELSE MinorLoop(groups, scores, 1, st1)
    IN  IF st2.err # "none" THEN [err |-> st2.err, scores_summary |-> <<>>]
        ELSE IF st2.others_count = 0 /\ ~np_scalars
        THEN [err |-> "ZeroDivisionError", scores_summary |-> <<>>]
        ELSE LET weighted_score == Put(st2.weighted_score, "Others", st2.others_score)
                 with_others == Put(st2.scores_summary, "Others",
                                    FDiv(st2.others_score, F(st2.others_count)))
                 average == Average(weighted_score, groups)
             IN [err |-> "none",
                 scores_summary |-> Put(with_others, "Average", average)]

\* ------------------------------------------------------------ the datasets
\* The Frequency column of a row of category c.  M4Info.csv holds 1, 4, 12,
\* 1, 1, 24; the model keeps which categories are seasonal and scales the
\* season down to 2.
frequency_map(c) == IF c \in {"Yearly", "Weekly", "Daily"} THEN 1 ELSE 2

\* The in-sample history and the out-of-sample target of reference row i.
InsampleOf(i) == <<F(i), F(i + 1), F(i + 3)>>

TargetOf(i) == <<F(i)>>

\* M4Dataset.load: every field but `values` comes from the reference table.
load(groups, frequencies, values) ==
    [ids |-> [i \in 1..Len(groups) |-> i],
     groups |-> groups,
     frequencies |-> frequencies,
     horizons |-> [i \in 1..Len(groups) |-> Len(TargetOf(i))],
     values |-> values]

\* M4Summary.__init__ over a reference table with the given columns.
M4Summary(groups, frequencies) ==
    /\ training_set = load(groups, frequencies,
                           [i \in 1..Len(groups) |-> InsampleOf(i)])
    /\ test_set = load(groups, frequencies,
                       [i \in 1..Len(groups) |-> TargetOf(i)])

\* ---------------------------------------------------- the missing helpers
\* np.unique(groups): the distinct labels, sorted (alphabetically).
SortedLabels == <<"Daily", "Hourly", "Monthly", "Quarterly", "Weekly", "Yearly">>

IsPresent(groups, c) == \E i \in 1..Len(groups) : groups[i] = c

unique(groups) ==
    LET Present(c) == IsPresent(groups, c) IN SelectSeq(SortedLabels, Present)

\* groups == group_name
GroupMask(groups, group_name) == [i \in 1..Len(groups) |-> groups[i] = group_name]

\* summary.utils.group_values: the rows of `values` whose group is
\* group_name, in their order, each with its NaN entries dropped.  A boolean
\* mask of another length than `values` is numpy's IndexError.
group_values(values, groups, group_name) ==
    IF Len(values) # Len(groups) THEN [err |-> "IndexError", val |-> <<>>]
    ELSE [err |-> "none",
          val |-> LET rows == MaskSelect(values, GroupMask(groups, group_name))
                  IN [i \in 1..Len(rows) |-> StripNaN(rows[i])]]

\* The reference-table rows of a group, in table order.
GroupRows(groups, group_name) ==
    MaskSelect([i \in 1..Len(groups) |-> i], GroupMask(groups, group_name))

\* One point of common.metrics.smape_2: 200 |f - t| / (|t| + |f|), the
\* denominator 1 where it would be 0.
smape_point(f, t) ==
    LET denom == FAdd(FAbs(t), FAbs(f))
    IN FDiv(FMul(F(200), FAbs(FSub(f, t))), IF denom = F(0) THEN F(1) ELSE denom)

RECURSIVE Flatten(_)
Flatten(rows) == IF rows = <<>> THEN <<>> ELSE Head(rows) \o Flatten(Tail(rows))

SameShape(a, b) ==
    Len(a) = Len(b) /\ \A i \in 1..Len(a) : Len(a[i]) = Len(b[i])

\* np.mean(smape_2(forecast, target)) over the rows of a group.
mean_smape_2(forecast, target) ==
    LET f == Flatten(forecast)
        t == Flatten(target)
    IN FMean([i \in 1..Len(f) |-> smape_point(f[i], t[i])])

\* common.metrics.mase: mean |forecast - outsample| over the mean absolute
\* difference of the in-sample history at lag `frequency`.
mase(forecast, insample, outsample, frequency) ==
    LET n == Len(insample) - frequency
        scale == FMean([i \in 1..(IF n > 0 THEN n ELSE 0) |->
                          FAbs(FSub(insample[i], insample[i + frequency]))])
    IN FDiv(FMean([i \in 1..Len(forecast) |->
                     FAbs(FSub(forecast[i], outsample[i]))]), scale)

\* ----------------------------------------------------------------- evaluate
\* The locals of a call of evaluate that has not run a line yet.
Locals0 ==
    [pc |-> "strip", err |-> "none", forecast |-> <<>>,
     smapes |-> <<>>, grouped_smapes |-> <<>>, naive2_forecasts |-> <<>>,
     model_mases |-> <<>>, naive2_smapes |-> <<>>, naive2_mases |-> <<>>,
     grouped_model_mases |-> <<>>, grouped_naive2_smapes |-> <<>>,
     grouped_naive2_mases |-> <<>>, grouped_owa |-> <<>>, ret |-> <<>>,
     mase_log |-> {}, n_scored |-> 0]

Raise(L, e) == [L EXCEPT !.pc = "raised", !.err = e]

\* forecast = np.array([v[~np.isnan(v)] for v in forecast]): a new array,
\* bound to the local name.
strip_forecast(L, forecast) ==
    [L EXCEPT !.pc = "smapes",
              !.forecast = [i \in 1..Len(forecast) |-> StripNaN(forecast[i])]]

\* The dict comprehension building grouped_smapes, from the i-th label of
\* np.unique(groups) on.
RECURSIVE smapes_loop(_, _, _)
smapes_loop(L, te, i) ==
    LET names == unique(te.groups) IN
    IF i > Len(names) THEN [L EXCEPT !.pc = "summarize"]
    ELSE LET group_name == names[i]
             f == group_values(L.forecast, te.groups, group_name)
             t == group_values(te.values, te.groups, group_name)
         IN IF f.err # "none" THEN Raise(L, f.err)
            ELSE IF t.err # "none" THEN Raise(L, t.err)
            ELSE IF ~SameShape(f.val, t.val) THEN Raise(L, "ValueError")
            ELSE smapes_loop(
                   [L EXCEPT !.smapes = Put(@, group_name, mean_smape_2(f.val, t.val)),
                             !.n_scored = @ + Len(f.val)],
                   te, i + 1)

\* grouped_smapes = self.summarize_groups(grouped_smapes)
summarize_smapes(L, te) ==
    LET r == summarize_groups(te.groups, L.smapes, TRUE) IN
    IF r.err # "none" THEN Raise(L, r.err)
    ELSE [L EXCEPT !.pc = "naive2", !.grouped_smapes = r.scores_summary]

\* naive2_forecasts: the table's values without its first column, each row
\* with its NaN entries dropped.
load_naive2(L, csv) ==
    [L EXCEPT !.pc = "mases",
              !.naive2_forecasts = [i \in 1..Len(csv) |-> StripNaN(csv[i].values)]]

\* Mutant: the frequency of the last row of the group.
group_frequency_last(tr, te, group_name) ==
    LET picked == MaskSelect(tr.frequencies, GroupMask(te.groups, group_name))
    IN IF picked = <<>> THEN [err |-> "IndexError", val |-> 0]
       ELSE [err |-> "none", val |-> picked[Len(picked)]]

\* frequency = self.training_set.frequencies[self.test_set.groups == group_name][0]
group_frequency(tr, te, group_name) ==
    LET picked == MaskSelect(tr.frequencies, GroupMask(te.groups, group_name))
    IN IF picked = <<>> THEN [err |-> "IndexError", val |-> 0]
       ELSE [err |-> "none", val |-> picked[1]]

\* The loop computing model_mases, naive2_mases and naive2_smapes, from the
\* i-th label of np.unique(groups) on.
RECURSIVE mases_loop(_, _, _, _)
mases_loop(L, tr, te, i) ==
    LET names == unique(te.groups) IN
    IF i > Len(names) THEN [L EXCEPT !.pc = "summaries"]
    ELSE LET group_name == names[i]
             model_forecast == group_values(L.forecast, te.groups, group_name)
             naive2_forecast == group_values(L.naive2_forecasts, te.groups, group_name)
             target == group_values(te.values, te.groups, group_name)
             frequency == group_frequency(tr, te, group_name)
             insample == group_values(tr.values, te.groups, group_name)
             rows == GroupRows(te.groups, group_name)
             n == Len(model_forecast.val)
             Mases(fc) == [j \in 1..n |->
                             mase(fc[j], insample.val[j], target.val[j], frequency.val)]
             Log(who, fc) == {[who |-> who, row |-> rows[j], forecast |-> fc[j],
                               insample |-> insample.val[j],
                               outsample |-> target.val[j],
                               frequency |-> frequency.val] : j \in 1..n}
         IN IF model_forecast.err # "none" THEN Raise(L, model_forecast.err)
            ELSE IF naive2_forecast.err # "none" THEN Raise(L, naive2_forecast.err)
            ELSE IF target.err # "none" THEN Raise(L, target.err)
            ELSE IF frequency.err # "none" THEN Raise(L, frequency.err)
            ELSE IF insample.err # "none" THEN Raise(L, insample.err)
            ELSE IF ~SameShape(model_forecast.val, target.val)
                    \/ ~SameShape(naive2_forecast.val, target.val)
                 THEN Raise(L, "ValueError")
            ELSE mases_loop(
                   [L EXCEPT
                      !.model_mases =
                          Put(@, group_name, FMean(Mases(model_forecast.val))),
                      !.naive2_mases =
                          Put(@, group_name, FMean(Mases(naive2_forecast.val))),
                      !.naive2_smapes =
                          Put(@, group_name, mean_smape_2(naive2_forecast.val, target.val)),
                      !.mase_log = @ \cup Log("model", model_forecast.val)
                                     \cup Log("naive2", naive2_forecast.val),
                      !.n_scored = @ + 3 * n],
                   tr, te, i + 1)

\* The three summarize_groups calls after the loop.
summarize_rest(L, te) ==
    LET a == summarize_groups(te.groups, L.model_mases, TRUE)
        b == summarize_groups(te.groups, L.naive2_smapes, TRUE)
        c == summarize_groups(te.groups, L.naive2_mases, TRUE)
    IN IF a.err # "none" THEN Raise(L, a.err)
       ELSE IF b.err # "none" THEN Raise(L, b.err)
       ELSE IF c.err # "none" THEN Raise(L, c.err)
       ELSE [L EXCEPT !.pc = "combine",
                      !.grouped_model_mases = a.scores_summary,
                      !.grouped_naive2_smapes = b.scores_summary,
                      !.grouped_naive2_mases = c.scores_summary]

\* Mutant: the ratios formed from the rounded summaries.
owa_rounded(L, k) ==
    FDiv(FAdd(FDiv(Round3(Get(L.grouped_model_mases, k)),
                   Round3(Get(L.grouped_naive2_mases, k))),
              FDiv(Round3(Get(L.grouped_smapes, k)),
                   Round3(Get(L.grouped_naive2_smapes, k)))),
         F(2))

\* grouped_owa[k] for one key k.
owa(L, k) ==
    FDiv(FAdd(FDiv(Get(L.grouped_model_mases, k), Get(L.grouped_naive2_mases, k)),
              FDiv(Get(L.grouped_smapes, k), Get(L.grouped_naive2_smapes, k))),
         F(2))

\* for k in grouped_model_mases.keys(): grouped_owa[k] = ...
combine(L) ==
    LET keys == Keys(L.grouped_model_mases) IN
    [L EXCEPT !.pc = "round",
              !.grouped_owa = [i \in 1..Len(keys) |-> [k |-> keys[i], v |-> owa(L, keys[i])]]]

\* round_all: a dict of the same items, each value rounded to 3 decimals.
round_all(dict) == [i \in 1..Len(dict) |-> [k |-> dict[i].k, v |-> Round3(dict[i].v)]]

\* return round_all(grouped_smapes), round_all(grouped_owa)
return_rounded(L) ==
    [L EXCEPT !.pc = "returned",
              !.ret = <<round_all(L.grouped_smapes), round_all(L.grouped_owa)>>]

Running(p) == p \in DOMAIN call /\ call[p].pc \notin {"returned", "raised"}

\* Mutant: the NaN entries dropped in the caller's array as well.
StripForecast_inplace(p) ==
    /\ Running(p) /\ call[p].pc = "strip"
    /\ call' = [call EXCEPT ![p] = strip_forecast(@, forecast_arg[p])]
    /\ forecast_arg' = [forecast_arg EXCEPT ![p] = call'[p].forecast]
    /\ UNCHANGED <<session, sg_vars, cache_vars>>

\* Line 26.
StripForecast(p) ==
    /\ Running(p) /\ call[p].pc = "strip"
    /\ call' = [call EXCEPT ![p] = strip_forecast(@, forecast_arg[p])]
    /\ UNCHANGED <<session, forecast_arg, sg_vars, cache_vars>>

\* Lines 28 to 35.
GroupedSmapes(p) ==
    /\ Running(p) /\ call[p].pc = "smapes"
    /\ call' = [call EXCEPT ![p] = smapes_loop(@, test_set, 1)]
    /\ UNCHANGED <<session, forecast_arg, sg_vars, cache_vars>>

\* Line 36.
SummarizeSmapes(p) ==
    /\ Running(p) /\ call[p].pc = "summarize"
    /\ call' = [call EXCEPT ![p] = summarize_smapes(@, test_set)]
    /\ UNCHANGED <<session, forecast_arg, sg_vars, cache_vars>>

\* Lines 40 and 41.
LoadNaive2(p) ==
    /\ Running(p) /\ call[p].pc = "naive2"
    /\ call' = [call EXCEPT ![p] = load_naive2(@, naive2_csv)]
    /\ UNCHANGED <<session, forecast_arg, sg_vars, cache_vars>>

\* Lines 43 to 64.
GroupedMases(p) ==
    /\ Running(p) /\ call[p].pc = "mases"
    /\ call' = [call EXCEPT ![p] = mases_loop(@, training_set, test_set, 1)]
    /\ UNCHANGED <<session, forecast_arg, sg_vars, cache_vars>>

\* Lines 65 to 67.
SummarizeRest(p) ==
    /\ Running(p) /\ call[p].pc = "summaries"
    /\ call' = [call EXCEPT ![p] = summarize_rest(@, test_set)]
    /\ UNCHANGED <<session, forecast_arg, sg_vars, cache_vars>>

\* Lines 68 to 70.
Combine(p) ==
    /\ Running(p) /\ call[p].pc = "combine"
    /\ call' = [call EXCEPT ![p] = combine(@)]
    /\ UNCHANGED <<session, forecast_arg, sg_vars, cache_vars>>

\* Lines 71 to 73.
Return(p) ==
    /\ Running(p) /\ call[p].pc = "round"
    /\ call' = [call EXCEPT ![p] = return_rounded(@)]
    /\ UNCHANGED <<session, forecast_arg, sg_vars, cache_vars>>

\* evaluate(forecast) run from its first line to its end on an unchanging
\* session: the locals it ends with.
RECURSIVE run_evaluate(_, _, _, _, _)
run_evaluate(L, forecast, tr, te, csv) ==
    CASE L.pc = "strip" -> run_evaluate(strip_forecast(L, forecast), forecast, tr, te, csv)
      [] L.pc = "smapes" -> run_evaluate(smapes_loop(L, te, 1), forecast, tr, te, csv)
      [] L.pc = "summarize" -> run_evaluate(summarize_smapes(L, te), forecast, tr, te, csv)
      [] L.pc = "naive2" -> run_evaluate(load_naive2(L, csv), forecast, tr, te, csv)
      [] L.pc = "mases" -> run_evaluate(mases_loop(L, tr, te, 1), forecast, tr, te, csv)
      [] L.pc = "summaries" -> run_evaluate(summarize_rest(L, te), forecast, tr, te, csv)
      [] L.pc = "combine" -> run_evaluate(combine(L), forecast, tr, te, csv)
      [] L.pc = "round" -> run_evaluate(return_rounded(L), forecast, tr, te, csv)
      [] OTHER -> L

\* ------------------------------------------------------------ the inputs
\* The category column of a reference table holding count[c] rows of
\* category c, the categories in declared order.
RECURSIVE Column(_, _)
Column(count, i) ==
    IF i > Len(seasonal_patterns) THEN <<>>
    ELSE [j \in 1..count[seasonal_patterns[i]] |-> seasonal_patterns[i]]
         \o Column(count, i + 1)

Reverse(s) == [i \in 1..Len(s) |-> s[Len(s) + 1 - i]]

\* Corpora with all six categories, one of them holding extra rows, and toy
\* corpora with two categories.
FullCounts ==
    {[c \in Categories |-> IF c = dup THEN 1 + extra ELSE 1] :
        dup \in Categories, extra \in 0..MaxExtra}

ToyCounts ==
    {[c \in Categories |-> IF c = pair[1] THEN na ELSE IF c = pair[2] THEN nb ELSE 0] :
        pair \in {q \in Categories \X Categories : q[1] # q[2]},
        na \in 1..(MaxExtra + 1), nb \in 1..(MaxExtra + 1)}

GroupColumns(counts) ==
    {Column(count, 1) : count \in counts} \cup {Reverse(Column(count, 1)) : count \in counts}

\* The Frequency column: "uniform", the category's frequency in every row,
\* or "rowwise", a table whose rows of one category disagree.
FrequencyColumn(groups, kind) ==
    IF kind = "uniform" THEN [i \in 1..Len(groups) |-> frequency_map(groups[i])]
    ELSE [i \in 1..Len(groups) |-> 1 + (i % 2)]

\* A table of n forecasts padded with NaN: an odd row forecasts mult[1]
\* times its target, an even row mult[2] times.
Padded(row) == row \o <<NaN>>

ForecastTable(n, mult) ==
    [i \in 1..n |-> Padded([j \in 1..Len(TargetOf(i)) |->
                               FMul(F(mult[2 - (i % 2)]), TargetOf(i)[j])])]

Multipliers(S) == {<<a, b>> : a \in S, b \in S}

RowDeltas == {-1, 0, 1}

Calls == {1, 2}

\* No summarize_groups call of its own is in progress.
NoSummarize == sg_scores = <<>> /\ sg_pc = "unused" /\ sg_err = "none" /\ sg_ret = <<>>

\* A loaded session: the two datasets of M4Summary.__init__ and the baseline
\* table, of Len(groups) + delta rows.
InitSession(columns, kinds, mults, deltas) ==
    /\ \E groups \in columns :
         /\ \E kind \in kinds : M4Summary(groups, FrequencyColumn(groups, kind))
         /\ \E mult \in mults, delta \in deltas :
              naive2_csv = [i \in 1..(Len(groups) + delta) |->
                              [id |-> i, values |-> ForecastTable(Len(groups) + delta, mult)[i]]]
    /\ NoSummarize
    /\ NoCache

\* One call of evaluate.
Init ==
    /\ InitSession(GroupColumns(FullCounts \cup ToyCounts), {"uniform", "rowwise"},
                   {<<1, 1>>, <<3, 0>>}, RowDeltas)
    /\ \E mult \in Multipliers({1, 3}), delta \in RowDeltas :
         forecast_arg = [p \in {1} |-> ForecastTable(Len(test_set.groups) + delta, mult)]
    /\ call = [p \in {1} |-> Locals0]

\* Two calls of evaluate on one M4Summary, each with its own forecast.
InitConcurrent ==
    /\ InitSession({Column(count, 1) : count \in FullCounts}, {"uniform"}, {<<3, 0>>}, {0})
    /\ forecast_arg \in [Calls -> {ForecastTable(Len(test_set.groups), mult) :
                                      mult \in Multipliers({1, 3})}]
    /\ call = [p \in Calls |-> Locals0]

Step(p) ==
    \/ StripForecast(p)
    \/ GroupedSmapes(p)
    \/ SummarizeSmapes(p)
    \/ LoadNaive2(p)
    \/ GroupedMases(p)
    \/ SummarizeRest(p)
    \/ Combine(p)
    \/ Return(p)

Next == Step(1)

Spec == Init /\ [][Next]_vars

NextConcurrent == \E p \in Calls : Step(p)

SpecConcurrent == InitConcurrent /\ [][NextConcurrent]_vars

\* ------------------------------------- summarize_groups called on its own
ScoreValues == {F(1), F(MaxScore)}

ScoreMaps ==
    {[i \in 1..Len(seasonal_patterns) |-> [k |-> seasonal_patterns[i], v |-> f[i]]] :
        f \in [1..Len(seasonal_patterns) -> ScoreValues]}

InitSummarize ==
    /\ \E groups \in SeqsUpTo(Categories, MaxRows) :
          M4Summary(groups, [i \in 1..Len(groups) |-> frequency_map(groups[i])])
    /\ naive2_csv = <<>>
    /\ forecast_arg = <<>>
    /\ call = <<>>
    /\ sg_scores \in ScoreMaps
    /\ sg_pc = "called"
    /\ sg_err = "none"
    /\ sg_ret = <<>>
    /\ NoCache

\* The call returns.  The scores are numpy scalars or Python floats, as the
\* caller chose.
SummarizeReturn ==
    /\ sg_pc = "called"
    /\ \E np_scalars \in BOOLEAN :
         LET r == summarize_groups(test_set.groups, sg_scores, np_scalars) IN
           /\ r.err = "none"
           /\ sg_pc' = "returned"
           /\ sg_ret' = r.scores_summary
    /\ UNCHANGED <<session, forecast_arg, call, sg_scores, sg_err, cache_vars>>

\* The call raises.
SummarizeRaise ==
    /\ sg_pc = "called"
    /\ \E np_scalars \in BOOLEAN :
         LET r == summarize_groups(test_set.groups, sg_scores, np_scalars) IN
           /\ r.err # "none"
           /\ sg_pc' = "raised"
           /\ sg_err' = r.err
    /\ UNCHANGED <<session, forecast_arg, call, sg_scores, sg_ret, cache_vars>>

NextSummarize == SummarizeReturn \/ SummarizeRaise

SpecSummarize == InitSummarize /\ [][NextSummarize]_vars

\* -------------------------------------------------------------- build_cache
\* Mutant: the dictionary starts empty.
seed_dict_empty(ids) == <<>>

\* OrderedDict(list(zip(m4_ids, [[]] * len(m4_ids)))): every reference
\* identifier, in table order, with an empty list.
RECURSIVE seed_dict(_)
seed_dict(ids) ==
    IF ids = <<>> THEN <<>>
    ELSE Put(seed_dict(SubSeq(ids, 1, Len(ids) - 1)), ids[Len(ids)], <<>>)

\* for m4id, row in dataset.iterrows(): timeseries_dict[m4id] = values[~np.isnan(values)]
RECURSIVE store_rows(_, _)
store_rows(dict, rows) ==
    IF rows = <<>> THEN dict
    ELSE store_rows(Put(dict, Head(rows).id, StripNaN(Head(rows).values)), Tail(rows))

\* The first line of build_cache.
BuildCacheStart ==
    /\ bc # <<>> /\ bc.pc = "start"
    /\ bc' = [bc EXCEPT !.pc = "files",
                        !.timeseries_dict = seed_dict(m4_ids),
                        !.pending = DOMAIN csv_files]
    /\ UNCHANGED <<session, forecast_arg, call, sg_vars, m4_ids, csv_files>>

\* One round of the loop over glob(...), which lists the matching files in
\* an order of the file system's choosing.
ReadCsv ==
    /\ bc # <<>> /\ bc.pc = "files"
    /\ \E train_csv \in bc.pending :
         bc' = [bc EXCEPT !.pending = @ \ {train_csv},
                          !.read = Append(@, train_csv),
                          !.timeseries_dict = store_rows(@, csv_files[train_csv])]
    /\ UNCHANGED <<session, forecast_arg, call, sg_vars, m4_ids, csv_files>>

\* np.array(list(timeseries_dict.values())).dump(cache_path)
DumpCache ==
    /\ bc # <<>> /\ bc.pc = "files" /\ bc.pending = {}
    /\ bc' = [bc EXCEPT !.pc = "dumped", !.cache = Values(bc.timeseries_dict)]
    /\ UNCHANGED <<session, forecast_arg, call, sg_vars, m4_ids, csv_files>>

\* The values of the CSV row of identifier id: NaN padding at the end, at
\* the start or in between.
RowValues(id, shape) ==
    CASE (id + shape) % 3 = 0 -> <<F(id), NaN>>
      [] (id + shape) % 3 = 1 -> <<NaN, F(id), F(id + 1)>>
      [] OTHER -> <<F(id), NaN, F(id + 1), NaN>>

FileNames == {"Daily-train.csv", "Yearly-train.csv"}

\* The rows of a file: the identifiers placed in it, ascending or descending.
RowsOf(ids, shape, descending) ==
    LET n == Cardinality(ids)
        up == CHOOSE q \in [1..n -> ids] :
                 \A i \in 1..n, j \in 1..n : i < j => q[i] < q[j]
        order == IF descending THEN Reverse(up) ELSE up
    IN [i \in 1..n |-> [id |-> order[i], values |-> RowValues(order[i], shape)]]

\* build_cache is about to run.  The reference table lists NIds distinct
\* identifiers in any order; each has its one row in one of the files or in
\* none, and the files hold no other identifier (section 3 of spec.md: every
\* identifier of a value store has exactly one reference-table row).
InitCache ==
    /\ training_set = <<>> /\ test_set = <<>> /\ naive2_csv = <<>>
    /\ forecast_arg = <<>> /\ call = <<>>
    /\ NoSummarize
    /\ m4_ids \in Permutations(1..NIds)
    /\ \E place \in [1..NIds -> FileNames \cup {"none"}],
          shape \in 0..2, descending \in BOOLEAN :
         csv_files = [f \in FileNames |->
                        RowsOf({i \in 1..NIds : place[i] = f}, shape, descending)]
    /\ bc = [pc |-> "start", pending |-> {}, read |-> <<>>,
             timeseries_dict |-> <<>>, cache |-> <<>>]

NextCache == BuildCacheStart \/ ReadCsv \/ DumpCache

SpecCache == InitCache /\ [][NextCache]_vars

\* ----------------------------------------------------- claims, summarize
\* The number of test-set series labelled c, counted from the reference
\* column itself.
Count(c) == Cardinality({i \in 1..Len(test_set.groups) : test_set.groups[i] = c})

MinorCount == Count("Weekly") + Count("Daily") + Count("Hourly")

Weighted(c) == FMul(Get(sg_scores, c), F(Count(c)))

MinorWeighted == FAdd(FAdd(Weighted("Weekly"), Weighted("Daily")), Weighted("Hourly"))

MajorWeighted == FAdd(FAdd(Weighted("Yearly"), Weighted("Quarterly")), Weighted("Monthly"))

\* C1: when the minor categories together hold at least one series,
\* summarize_groups returns, and Others is the sum of score*count over
\* Weekly, Daily and Hourly divided by the sum of their counts.
C1_OthersIsWeightedMean ==
    (sg_pc # "called" /\ MinorCount > 0) =>
        /\ sg_pc = "returned"
        /\ IsFinite(Get(sg_ret, "Others"))
        /\ FMul(Get(sg_ret, "Others"), F(MinorCount)) = MinorWeighted

C1_Witness ==
    /\ sg_pc = "returned"
    /\ Count("Weekly") = 1 /\ Count("Daily") = 1 /\ Count("Hourly") = 1
    /\ Get(sg_scores, "Weekly") # Get(sg_scores, "Hourly")
    /\ Get(sg_ret, "Others") \notin ScoreValues

\* C2: whenever summarize_groups returns, Average is the sum of score*count
\* over all six categories divided by the total number of series N; and
\* when the minor categories hold a series, that sum is the major weighted
\* scores plus Others times the minor count.
C2_AverageOverAllSeries ==
    sg_pc = "returned" =>
        /\ Get(sg_ret, "Average") =
              FDiv(FAdd(MajorWeighted, MinorWeighted), F(Len(test_set.groups)))
        /\ MinorCount > 0 =>
              Get(sg_ret, "Average") =
                 FDiv(FAdd(MajorWeighted,
                           FMul(Get(sg_ret, "Others"), F(MinorCount))),
                      F(Len(test_set.groups)))

C2_Witness ==
    /\ sg_pc = "returned"
    /\ MinorCount > 0
    /\ Count("Yearly") + Count("Quarterly") + Count("Monthly") > 0
    /\ Len(test_set.groups) # 4
    /\ Get(sg_ret, "Average") # FDiv(FAdd(MajorWeighted, MinorWeighted), F(4))

\* C4: if a minor category (Weekly, Daily or Hourly) has no series in the
\* test set, summarize_groups fails and returns no summary.
C4_EmptyMinorCategoryFails ==
    (sg_pc # "called" /\ \E c \in {"Weekly", "Daily", "Hourly"} : Count(c) = 0) =>
        sg_pc = "raised"

\* ------------------------------------------------------- claims, evaluate
SummaryKeys == <<"Yearly", "Quarterly", "Monthly", "Others", "Average">>

Buckets == {SummaryKeys[i] : i \in 1..Len(SummaryKeys)}

\* `summary` has the five keys in order and passes the major scores through.
IsSummaryOf(summary, scores) ==
    /\ Keys(summary) = SummaryKeys
    /\ \A g \in {"Yearly", "Quarterly", "Monthly"} : Get(summary, g) = Get(scores, g)

\* C3: every summary summarize_groups hands back holds exactly the keys
\* Yearly, Quarterly, Monthly, Others, Average in that order, its three
\* major entries being the input scores, and both maps evaluate returns
\* hold those five keys in that order.
C3_FiveKeysInOrder ==
    \A p \in DOMAIN call :
        LET L == call[p] IN
        /\ L.grouped_smapes # <<>> => IsSummaryOf(L.grouped_smapes, L.smapes)
        /\ L.grouped_model_mases # <<>> =>
              /\ IsSummaryOf(L.grouped_model_mases, L.model_mases)
              /\ IsSummaryOf(L.grouped_naive2_smapes, L.naive2_smapes)
              /\ IsSummaryOf(L.grouped_naive2_mases, L.naive2_mases)
        /\ L.pc \in {"round", "returned"} => Keys(L.grouped_owa) = SummaryKeys
        /\ L.pc = "returned" =>
              /\ Len(L.ret) = 2
              /\ Keys(L.ret[1]) = SummaryKeys
              /\ Keys(L.ret[2]) = SummaryKeys

\* A call returned on a table whose rows run from Hourly to Yearly, where
\* np.unique iterates the categories in yet another order.
C3_Witness ==
    /\ call[1].pc = "returned"
    /\ test_set.groups[1] = "Hourly"
    /\ Keys(call[1].smapes) # seasonal_patterns
    /\ Get(call[1].grouped_smapes, "Yearly") # Get(call[1].grouped_smapes, "Monthly")

\* r is x rounded to 3 decimals: a multiple of 1/1000 at most 1/2000 away,
\* or x itself when x is not finite.
IsRounded(r, x) ==
    IF IsFinite(x)
    THEN /\ IsFinite(r)
         /\ 1000 % r.d = 0
         /\ 2000 * Abs(FSub(r, x).n) <= FSub(r, x).d
    ELSE r = x

Aggregate(scores) == summarize_groups(test_set.groups, scores, TRUE).scores_summary

\* C5: every combined score is (model MASE summary / baseline MASE summary
\* + model sMAPE summary / baseline sMAPE summary) / 2 over the unrounded
\* outputs of summarize_groups, and the values returned are the roundings
\* of the unrounded sMAPE summary and of the unrounded combined scores.
C5_CombineAfterAggregate ==
    \A p \in DOMAIN call :
        LET L == call[p] IN
        L.pc \in {"round", "returned"} =>
            /\ L.grouped_smapes = Aggregate(L.smapes)
            /\ L.grouped_model_mases = Aggregate(L.model_mases)
            /\ L.grouped_naive2_smapes = Aggregate(L.naive2_smapes)
            /\ L.grouped_naive2_mases = Aggregate(L.naive2_mases)
            /\ \A k \in Buckets :
                  LET mm == Get(L.grouped_model_mases, k)
                      nm == Get(L.grouped_naive2_mases, k)
                      ms == Get(L.grouped_smapes, k)
                      ns == Get(L.grouped_naive2_smapes, k)
                      v == Get(L.grouped_owa, k)
                  IN /\ (IsFinite(nm) /\ nm # F(0) /\ IsFinite(ns) /\ ns # F(0)) =>
                           FMul(FMul(F(2), v), FMul(nm, ns)) =
                              FAdd(FMul(mm, ns), FMul(ms, nm))
                     /\ (nm = F(0) \/ ns = F(0)) => ~IsFinite(v)
                     /\ L.pc = "returned" =>
                           /\ IsRounded(Get(L.ret[2], k), v)
                           /\ IsRounded(Get(L.ret[1], k), ms)

\* A returned call whose Others score is not a multiple of 1/1000 before
\* rounding and differs from the combined score of every minor category.
C5_Witness ==
    /\ call[1].pc = "returned"
    /\ IsFinite(Get(call[1].grouped_owa, "Others"))
    /\ Get(call[1].ret[2], "Others") # Get(call[1].grouped_owa, "Others")
    /\ Get(call[1].grouped_model_mases, "Others") # F(0)

\* The forecast array or the baseline table has another number of rows than
\* the reference table.
Misaligned(p) ==
    \/ Len(forecast_arg[p]) # Len(test_set.groups)
    \/ Len(naive2_csv) # Len(test_set.groups)

\* C6: when the forecast array or the baseline table has another number of
\* rows than the reference table, evaluate aborts before any per-series
\* metric is computed and returns no summary.
C6_FailFastOnRowCount ==
    \A p \in DOMAIN call :
        Misaligned(p) => (call[p].n_scored = 0 /\ call[p].pc # "returned")

PresentCategories == {c \in Categories : IsPresent(test_set.groups, c)}

\* A corpus of 4 series in 2 of the six categories.
ToyCorpus == Cardinality(PresentCategories) = 2 /\ Len(test_set.groups) = 4

\* The forecast of call p is the ground truth (padded).
ExactForecast(p) == forecast_arg[p] = ForecastTable(Len(test_set.groups), <<1, 1>>)

Ended(p) == call[p].pc \in {"returned", "raised"}

AllZero(summary) == \A k \in Buckets : Get(summary, k) = F(0)

LoggedForecast(p, c) ==
    IF c.who = "model" THEN StripNaN(forecast_arg[p][c.row])
    ELSE StripNaN(naive2_csv[c.row].values)

Paired(p, c) ==
    /\ c.insample = training_set.values[c.row]
    /\ c.outsample = test_set.values[c.row]
    /\ c.forecast = LoggedForecast(p, c)

\* The first reference-table row of the category of row i.
FirstRowOfGroup(i) ==
    CHOOSE j \in 1..Len(test_set.groups) :
        /\ test_set.groups[j] = test_set.groups[i]
        /\ \A h \in 1..(j - 1) : test_set.groups[h] # test_set.groups[i]

FrameStep ==
    /\ session' = session
    /\ forecast_arg' = forecast_arg
    /\ \A p \in DOMAIN call :
          /\ call[p].pc = "summarize" => call'[p].smapes = call[p].smapes
          /\ call[p].pc = "summaries" =>
                /\ call'[p].model_mases = call[p].model_mases
                /\ call'[p].naive2_smapes = call[p].naive2_smapes
                /\ call'[p].naive2_mases = call[p].naive2_mases

\* Every call that ended, ended as it would have run alone from its first
\* line to its last.
EndsAsAlone ==
    \A p \in DOMAIN call :
        Ended(p) => call[p] = run_evaluate(Locals0, forecast_arg[p],
                                           training_set, test_set, naive2_csv)

\* C8: evaluate and summarize_groups leave the session, the caller's
\* forecast array and the input score map unchanged, and each of two
\* interleaved evaluate calls returns what it returns when run alone.
C8_ReadOnlySession == [][FrameStep]_vars /\ []EndsAsAlone

\* Call 1 has returned while call 2, given another forecast, is in its loop
\* over the groups; the caller's array of call 1 still holds its NaN padding.
C8_Witness ==
    /\ DOMAIN call = Calls
    /\ call[1].pc = "returned"
    /\ call[2].pc = "mases"
    /\ forecast_arg[1] # forecast_arg[2]
    /\ call[1].forecast # forecast_arg[1]
    /\ call[1].ret # <<>>

\* ------------------------------------------------------ claims, build_cache
NotNaN(x) == ~(x.d = 0 /\ x.n = 0)

\* The rows of identifier id in the CSV files.
RowsWithId(id) ==
    {row \in UNION {{csv_files[f][i] : i \in 1..Len(csv_files[f])} : f \in DOMAIN csv_files} :
        row.id = id}

\* C10: once build_cache has dumped the cache, whatever the order the files
\* were read in, the store has one element per reference identifier, in
\* reference-table order, and element i is the non-NaN values, in their
\* order, of the CSV row of the i-th identifier (empty when no file holds
\* such a row).
C10_CacheFollowsReferenceTable ==
    (bc # <<>> /\ bc.pc = "dumped") =>
        /\ Len(bc.cache) = Len(m4_ids)
        /\ \A i \in 1..Len(m4_ids) :
              /\ \A row \in RowsWithId(m4_ids[i]) :
                    bc.cache[i] = SelectSeq(row.values, NotNaN)
              /\ RowsWithId(m4_ids[i]) = {} => bc.cache[i] = <<>>

\* The cache was dumped after reading first a file whose first row is not
\* the first reference identifier, then another file with rows; one
\* identifier has no row.
C10_Witness ==
    /\ bc # <<>> /\ bc.pc = "dumped"
    /\ Len(bc.read) = 2
    /\ csv_files[bc.read[1]] # <<>>
    /\ csv_files[bc.read[2]] # <<>>
    /\ csv_files[bc.read[1]][1].id # m4_ids[1]
    /\ csv_files[bc.read[2]][1].id = m4_ids[1]
    /\ \E i \in 1..Len(m4_ids) : RowsWithId(m4_ids[i]) = {}
    /\ \E i \in 1..Len(m4_ids) : Len(bc.cache[i]) = 2

=============================================================================
